---- MODULE Spec2Model ----
(***************************************************************************)
(* A model of src/task.rs: the TaskManager (a DashMap from TaskId to       *)
(* Task), the process-wide id counter NEXT_TASK_ID, and the dependency     *)
(* engine (Task::depends_on, Task::add_dependency).                        *)
(*                                                                         *)
(* Two specifications share the state:                                     *)
(*   Spec      calls run one at a time, each to completion (one action per *)
(*             public call, computed by the operators below);              *)
(*   SpecConc  several threads run the same calls step by step, one shared *)
(*             memory access per step, interleaved arbitrarily.            *)
(***************************************************************************)
EXTENDS Integers, Sequences, FiniteSets, TLC

\* ------------------------------------------------------------------ bounds

\* Number of tasks one run of Spec creates.
MaxTasks == 4

\* Number of dependency edges one run of Spec records.
MaxEdges == 4

\* Number of tasks one run of SpecConc creates.
MaxTasksC == 2

\* Number of threads of SpecConc.
NumThreads == 2

\* Rounds of the loop of depends_on one call of SpecConc runs; a call that
\* needs more is left where it is.
MaxIter == 2

\* Number of tasks one run of SpecFields creates.
MaxTasksF == 2

\* Number of ids one run of SpecIds draws.
MaxIds == 4

\* Ids a caller may pass: every id create can return, and one it never does.
Ids == 0..MaxTasks

IdsC == 0..MaxTasksC

Threads == 1..NumThreads

\* ------------------------------------------------------------------- state

VARIABLES
    NEXT_TASK_ID,   \* the static AtomicU64 counter
    inner,          \* TaskManager.inner: the map TaskId -> Task, a function
                    \* whose domain is the set of stored ids
    inner2,         \* SpecIds: the map of a second TaskManager of the process
    hung,           \* Spec: the last call never returned
    th              \* SpecConc: each thread's position and locals

vars == <<NEXT_TASK_ID, inner, inner2, hung, th>>

\* The names and descriptions callers pass.
Names == {"t1", "t2"}

Descriptions == {"d1"}

\* ------------------------------------------------------------ return values

Ok == [kind |-> "Ok"]

TaskNotFound(id) == [kind |-> "TaskNotFound", id |-> id]

CycleDetected(from, to) == [kind |-> "CycleDetected", from |-> from, to |-> to]

\* The call never returned: the loop of depends_on does not end.
Diverged == [kind |-> "Diverged"]

\* The unwrap of depends_on found no task and aborted.
Panicked == [kind |-> "Panicked"]

\* ------------------------------------------------------------- Task, TaskMap

\* Option<String>: None is the empty sequence, Some(d) the sequence <<d>>.
None == <<>>

Some(d) == <<d>>

\* Task::new that drops the description it is given.
Task_new_no_description(task_name, description, id) ==
    [id |-> id, name |-> task_name, description |-> None,
     completed |-> FALSE, deps |-> {}]

\* Task::new with the id TaskId::new returned: the record of a fresh task.
Task_new(task_name, description, id) ==
    [id |-> id, name |-> task_name, description |-> description,
     completed |-> FALSE, deps |-> {}]

EmptyMap == [i \in {} |-> Task_new("", None, 0)]

\* Task::update_name.
Task_update_name(task, new_name) == [task EXCEPT !.name = new_name]

\* Task::update_description.
Task_update_description(task, new_description) ==
    [task EXCEPT !.description = Some(new_description)]

\* Task::complete that flips the flag instead of setting it.
Task_complete_toggle(task) == [task EXCEPT !.completed = ~@]

\* Task::complete.
Task_complete(task) == [task EXCEPT !.completed = TRUE]

\* DashMap::insert.
MapInsert(m, id, t) == [i \in DOMAIN m \cup {id} |-> IF i = id THEN t ELSE m[i]]

\* A set enumerated in ascending order (one iteration order of a DashSet; the
\* loop of depends_on visits every element of a row, so its outcome is the
\* same for every order).
RECURSIVE SetToSeq(_)
SetToSeq(S) ==
    IF S = {} THEN <<>>
    ELSE LET x == CHOOSE y \in S : \A z \in S : y <= z
         IN  <<x>> \o SetToSeq(S \ {x})

\* VisitRow with the pass ended after the first task of the row.
RECURSIVE VisitRow_first_only(_, _, _, _, _)
VisitRow_first_only(m, curr_row, i, next_row, target) ==
    IF i > 1 \/ i > Len(curr_row) THEN [found |-> "no", next_row |-> next_row]
    ELSE IF curr_row[i] \notin DOMAIN m THEN [found |-> "Panicked", next_row |-> next_row]
    ELSE IF target \in m[curr_row[i]].deps THEN [found |-> "Transitive", next_row |-> next_row]
    ELSE VisitRow_first_only(m, curr_row, i + 1,
                             next_row \o SetToSeq(m[curr_row[i]].deps), target)

\* One pass of `for curr_id in curr_row` (lines 246-254) from position i, with
\* next_row as filled so far: "Transitive" if some visited task has target
\* among its deps, "Panicked" if a visited id is not in the map, the filled
\* next_row otherwise.
RECURSIVE VisitRow(_, _, _, _, _)
VisitRow(m, curr_row, i, next_row, target) ==
    IF i > Len(curr_row) THEN [found |-> "no", next_row |-> next_row]
    ELSE IF curr_row[i] \notin DOMAIN m THEN [found |-> "Panicked", next_row |-> next_row]
    ELSE IF target \in m[curr_row[i]].deps THEN [found |-> "Transitive", next_row |-> next_row]
    ELSE VisitRow(m, curr_row, i + 1, next_row \o SetToSeq(m[curr_row[i]].deps), target)

\* The loop of depends_on (lines 232-257) from the row curr_row at round iter.
\* A row that is still not empty after as many rounds as there are tasks ends
\* a walk that repeats a task, so every later row is non-empty too and the
\* loop never returns: "Diverged".
RECURSIVE Traverse(_, _, _, _)
Traverse(m, curr_row, iter, target) ==
    IF curr_row = <<>> THEN "None"
    ELSE LET r == VisitRow(m, curr_row, 1, <<>>, target)
         IN  IF r.found # "no" THEN r.found
             ELSE IF iter >= Cardinality(DOMAIN m) THEN "Diverged"
             ELSE Traverse(m, r.next_row, iter + 1, target)

\* depends_on with a lookup of target that aborts when target is not stored.
depends_on_unwrap_target(m, self, target) ==
    IF target \notin DOMAIN m THEN "Panicked"
    ELSE IF target \in m[self].deps THEN "Direct"
    ELSE Traverse(m, <<self>>, 0, target)

\* depends_on without the traversal: only the direct edges are looked at.
depends_on_direct_only(m, self, target) ==
    IF target \in m[self].deps THEN "Direct" ELSE "None"

\* depends_on without the membership test of line 225.
depends_on_no_direct_check(m, self, target) ==
    Traverse(m, <<self>>, 0, target)

\* Task::depends_on, on the task self of the map m.
depends_on(m, self, target) ==
    IF target \in m[self].deps THEN "Direct"
    ELSE Traverse(m, <<self>>, 0, target)

\* Task::add_dependency without the lookup of line 261 and the check of line
\* 264: the id is inserted whether or not a task is stored under it.
Task_add_dependency_no_lookup(m, self, dependency_id) ==
    [ret |-> Ok, map |-> [m EXCEPT ![self].deps = @ \cup {dependency_id}]]

\* Task::add_dependency with the insert placed before the cycle check.
Task_add_dependency_insert_first(m, self, dependency_id) ==
    IF dependency_id \notin DOMAIN m
    THEN [ret |-> TaskNotFound(dependency_id), map |-> m]
    ELSE LET m2 == [m EXCEPT ![self].deps = @ \cup {dependency_id}]
             k == depends_on(m, dependency_id, self)
         IN  CASE k = "Diverged" -> [ret |-> Diverged, map |-> m2]
               [] k = "Panicked" -> [ret |-> Panicked, map |-> m2]
               [] k \in {"Direct", "Transitive"} ->
                      [ret |-> CycleDetected(self, dependency_id), map |-> m2]
               [] OTHER -> [ret |-> Ok, map |-> m2]

\* Task::add_dependency with the insert made into the dependency's set.
Task_add_dependency_into_dependency(m, self, dependency_id) ==
    IF dependency_id \notin DOMAIN m
    THEN [ret |-> TaskNotFound(dependency_id), map |-> m]
    ELSE LET k == depends_on(m, dependency_id, self)
         IN  CASE k = "Diverged" -> [ret |-> Diverged, map |-> m]
               [] k = "Panicked" -> [ret |-> Panicked, map |-> m]
               [] k \in {"Direct", "Transitive"} ->
                      [ret |-> CycleDetected(self, dependency_id), map |-> m]
               [] OTHER ->
                      [ret |-> Ok,
                       map |-> [m EXCEPT ![dependency_id].deps = @ \cup {self}]]

\* Task::add_dependency, on the task self of the map m: the value returned
\* and the map afterwards.
Task_add_dependency(m, self, dependency_id) ==
    IF dependency_id \notin DOMAIN m
    THEN [ret |-> TaskNotFound(dependency_id), map |-> m]
    ELSE LET k == depends_on(m, dependency_id, self)
         IN  CASE k = "Diverged" -> [ret |-> Diverged, map |-> m]
               [] k = "Panicked" -> [ret |-> Panicked, map |-> m]
               [] k \in {"Direct", "Transitive"} ->
                      [ret |-> CycleDetected(self, dependency_id), map |-> m]
               [] OTHER ->
                      [ret |-> Ok,
                       map |-> [m EXCEPT ![self].deps = @ \cup {dependency_id}]]

\* TaskManager::get.
TaskManager_get(m, id) == IF id \in DOMAIN m THEN Some(m[id]) ELSE None

\* TaskId::new with a load of the counter in place of the fetch_add.
TaskId_new_load_only(next) == [id |-> next, next |-> next]

\* TaskId::new, with next the value of NEXT_TASK_ID: fetch_add(1) returns the
\* value before the addition; the id and the counter afterwards.
TaskId_new(next) == [id |-> next, next |-> next + 1]

\* TaskManager::_create_task, with next the value of NEXT_TASK_ID: the id
\* returned, the counter and the map afterwards.
create_task(m, next, name, description) ==
    LET r == TaskId_new(next)
    IN  [id |-> r.id, next |-> r.next,
         map |-> MapInsert(m, r.id, Task_new(name, description, r.id))]

\* TaskManager::add_dependency with the dependency looked up before the parent.
TaskManager_add_dependency_child_first(m, parent, child) ==
    IF child \notin DOMAIN m
    THEN [ret |-> TaskNotFound(child), map |-> m]
    ELSE IF parent \notin DOMAIN m
    THEN [ret |-> TaskNotFound(parent), map |-> m]
    ELSE Task_add_dependency(m, parent, child)

\* TaskManager::add_dependency.
TaskManager_add_dependency(m, parent, child) ==
    IF parent \notin DOMAIN m
    THEN [ret |-> TaskNotFound(parent), map |-> m]
    ELSE Task_add_dependency(m, parent, child)

\* ---------------------------------------------------------------- threads

\* A thread between calls.
Idle == [pc |-> "idle"]

\* A thread between calls, with the call it made last and what that returned.
Returned(call, ret) == [pc |-> "idle", call |-> call, ret |-> ret]

\* --------------------------------------------------------------------- Init

Init ==
    /\ NEXT_TASK_ID = 0
    /\ inner = EmptyMap
    /\ inner2 = EmptyMap
    /\ hung = FALSE
    /\ th = [t \in Threads |-> Idle]

\* ------------------------------------------------- Spec: one call at a time

\* The dependency edges of the map m.
Edges(m) == {e \in (DOMAIN m) \X Ids : e[2] \in m[e[1]].deps}

\* TaskManager::new_task("random_task"), as create_random_tasks calls it.
NewTask ==
    /\ ~hung
    /\ NEXT_TASK_ID < MaxTasks
    /\ LET r == create_task(inner, NEXT_TASK_ID, "random_task", None)
       IN  /\ NEXT_TASK_ID' = r.next
           /\ inner' = r.map
    /\ UNCHANGED <<inner2, hung, th>>

\* TaskManager::add_dependency(parent, child); a call that returns neither a
\* value nor an error ends the run.
AddDependency ==
    /\ ~hung
    /\ Cardinality(Edges(inner)) < MaxEdges
    /\ \E parent \in Ids, child \in Ids :
          LET r == TaskManager_add_dependency(inner, parent, child)
          IN  /\ inner' = r.map
              /\ hung' = (r.ret.kind \in {"Diverged", "Panicked"})
    /\ UNCHANGED <<NEXT_TASK_ID, inner2, th>>

\* manager.get(task).unwrap().depends_on(target), as the tests call it.
DependsOn ==
    /\ ~hung
    /\ \E task \in DOMAIN inner, target \in Ids :
          hung' = (depends_on(inner, task, target) \in {"Diverged", "Panicked"})
    /\ UNCHANGED <<NEXT_TASK_ID, inner, inner2, th>>

Next == NewTask \/ AddDependency \/ DependsOn

Spec == Init /\ [][Next]_vars

\* ------------------------------- SpecFields: one call at a time, all fields

OptDescriptions == {None} \cup {Some(d) : d \in Descriptions}

\* TaskManager::new_task(name) and new_task_with_description(name, description).
NewTaskNamed ==
    /\ ~hung
    /\ NEXT_TASK_ID < MaxTasksF
    /\ \E name \in Names, description \in OptDescriptions :
          LET r == create_task(inner, NEXT_TASK_ID, name, description)
          IN  /\ NEXT_TASK_ID' = r.next
              /\ inner' = r.map
    /\ UNCHANGED <<inner2, hung, th>>

\* manager.get_mut(id).unwrap().update_name(new_name).
UpdateName ==
    /\ ~hung
    /\ \E id \in DOMAIN inner, new_name \in Names :
          inner' = [inner EXCEPT ![id] = Task_update_name(@, new_name)]
    /\ UNCHANGED <<NEXT_TASK_ID, inner2, hung, th>>

\* manager.get_mut(id).unwrap().update_description(new_description).
UpdateDescription ==
    /\ ~hung
    /\ \E id \in DOMAIN inner, new_description \in Descriptions :
          inner' = [inner EXCEPT ![id] = Task_update_description(@, new_description)]
    /\ UNCHANGED <<NEXT_TASK_ID, inner2, hung, th>>

\* manager.get_mut(id).unwrap().complete().
Complete ==
    /\ ~hung
    /\ \E id \in DOMAIN inner :
          inner' = [inner EXCEPT ![id] = Task_complete(@)]
    /\ UNCHANGED <<NEXT_TASK_ID, inner2, hung, th>>

NextFields ==
    NewTaskNamed \/ UpdateName \/ UpdateDescription \/ Complete \/ AddDependency

SpecFields == Init /\ [][NextFields]_vars

\* ------------------------------------------- SpecConc: threads, step by step

\* The orders in which a DashSet of contents S can be iterated.
Orders(S) ==
    {o \in [1..Cardinality(S) -> S] : \A i, j \in 1..Cardinality(S) : o[i] = o[j] => i = j}

\* Lines 233-239: the row read and the row written in round iter.
CurrRow(r) == IF r.iter % 2 = 0 THEN r.buf1 ELSE r.buf2

\* The locals r with next_row (lines 233-239) replaced by row.
WithNextRow(r, row) ==
    IF r.iter % 2 = 0 THEN [r EXCEPT !.buf2 = row] ELSE [r EXCEPT !.buf1 = row]

\* Lines 256, 233-245: the round ends; the next one starts with the rows
\* swapped and, unless the row to read is empty (line 242: depends_on returns
\* None and add_dependency goes on to its insert), with next_row cleared.
NextRound(r) ==
    LET r2 == [r EXCEPT !.iter = @ + 1, !.i = 1]
    IN  IF CurrRow(r2) = <<>> THEN [r2 EXCEPT !.pc = "insert"]
        ELSE IF r2.iter > MaxIter THEN [r2 EXCEPT !.pc = "spinning"]
        ELSE WithNextRow(r2, <<>>)

\* TaskId::new (line 14): the fetch_add of _create_task's Task::new.
NewId(t) ==
    /\ th[t].pc = "idle"
    /\ NEXT_TASK_ID < MaxTasksC
    /\ LET r == TaskId_new(NEXT_TASK_ID)
       IN  /\ NEXT_TASK_ID' = r.next
           /\ th' = [th EXCEPT ![t] = [pc |-> "insert_task", id |-> r.id]]
    /\ UNCHANGED <<inner, inner2, hung>>

\* _create_task, line 117: the insert into the map, and the return.
InsertTask(t) ==
    /\ th[t].pc = "insert_task"
    /\ inner' = MapInsert(inner, th[t].id, Task_new("random_task", None, th[t].id))
    /\ th' = [th EXCEPT ![t] = Returned([op |-> "new_task"], th[t].id)]
    /\ UNCHANGED <<NEXT_TASK_ID, inner2, hung>>

\* TaskManager::add_dependency, line 134: the lookup of the parent.
GetParent(t, parent, child) ==
    /\ th[t].pc = "idle"
    /\ LET call == [op |-> "add_dependency", parent |-> parent, child |-> child]
       IN  th' = [th EXCEPT ![t] =
                    IF parent \notin DOMAIN inner
                    THEN Returned(call, TaskNotFound(parent))
                    ELSE [pc |-> "get_dependency", call |-> call,
                          held |-> <<parent>>]]
    /\ UNCHANGED <<NEXT_TASK_ID, inner, inner2, hung>>

\* Task::add_dependency, line 261: the lookup of the dependency.
GetDependency(t) ==
    /\ th[t].pc = "get_dependency"
    /\ LET r == th[t]
       IN  th' = [th EXCEPT ![t] =
                    IF r.call.child \notin DOMAIN inner
                    THEN Returned(r.call, TaskNotFound(r.call.child))
                    ELSE [pc |-> "contains", call |-> r.call,
                          held |-> r.held \o <<r.call.child>>]]
    /\ UNCHANGED <<NEXT_TASK_ID, inner, inner2, hung>>

\* Task::depends_on on the dependency, lines 225-245: the membership test and,
\* when it fails, the start of the first round.
Contains(t) ==
    /\ th[t].pc = "contains"
    /\ LET r == th[t]
       IN  th' = [th EXCEPT ![t] =
                    IF r.call.parent \in inner[r.call.child].deps
                    THEN Returned(r.call, CycleDetected(r.call.parent, r.call.child))
                    ELSE [pc |-> "visit", call |-> r.call, held |-> r.held,
                          buf1 |-> <<r.call.child>>, buf2 |-> <<>>,
                          iter |-> 0, i |-> 1]]
    /\ UNCHANGED <<NEXT_TASK_ID, inner, inner2, hung>>

\* Task::depends_on, lines 246-254: one task of the current row is looked up
\* and its dependency set read; after the last task of the row, the round
\* ends.
Visit(t) ==
    /\ th[t].pc = "visit"
    /\ LET r == th[t]
           curr_id == CurrRow(r)[r.i]
       IN  IF curr_id \notin DOMAIN inner
           THEN th' = [th EXCEPT ![t] = [pc |-> "panicked", call |-> r.call]]
           ELSE IF r.call.parent \in inner[curr_id].deps
           THEN th' = [th EXCEPT ![t] =
                         Returned(r.call, CycleDetected(r.call.parent, r.call.child))]
           ELSE \E o \in Orders(inner[curr_id].deps) :
                    LET next_row == IF r.iter % 2 = 0 THEN r.buf2 ELSE r.buf1
                        r2 == WithNextRow(r, next_row \o o)
                    IN  th' = [th EXCEPT ![t] =
                                 IF r.i < Len(CurrRow(r))
                                 THEN [r2 EXCEPT !.i = @ + 1]
                                 ELSE NextRound(r2)]
    /\ UNCHANGED <<NEXT_TASK_ID, inner, inner2, hung>>

\* The insert of lines 267-268 made into the dependency's set.
InsertDep_reversed(t) ==
    /\ th[t].pc = "insert"
    /\ LET r == th[t]
       IN  /\ inner' = [inner EXCEPT ![r.call.child].deps = @ \cup {r.call.parent}]
           /\ th' = [th EXCEPT ![t] = Returned(r.call, Ok)]
    /\ UNCHANGED <<NEXT_TASK_ID, inner2, hung>>

\* Task::add_dependency, lines 267-268: the insert of the edge, and the return.
InsertDep(t) ==
    /\ th[t].pc = "insert"
    /\ LET r == th[t]
       IN  /\ inner' = [inner EXCEPT ![r.call.parent].deps = @ \cup {r.call.child}]
           /\ th' = [th EXCEPT ![t] = Returned(r.call, Ok)]
    /\ UNCHANGED <<NEXT_TASK_ID, inner2, hung>>

NextConc ==
    \E t \in Threads :
        \/ NewId(t)
        \/ InsertTask(t)
        \/ \E parent \in IdsC, child \in IdsC : GetParent(t, parent, child)
        \/ GetDependency(t)
        \/ Contains(t)
        \/ Visit(t)
        \/ InsertDep(t)

SpecConc == Init /\ [][NextConc]_vars

\* ------------------------ SpecIds: creates through two managers, step by step

\* TaskId::new (line 14) inside a create made through the manager mgr (1 or
\* 2): the counter is static, one for all managers of the process.
NewIdOf(t, mgr) ==
    /\ th[t].pc = "idle"
    /\ NEXT_TASK_ID < MaxIds
    /\ LET r == TaskId_new(NEXT_TASK_ID)
       IN  /\ NEXT_TASK_ID' = r.next
           /\ th' = [th EXCEPT ![t] =
                        [pc |-> IF mgr = 1 THEN "insert_task" ELSE "insert_task2",
                         id |-> r.id]]
    /\ UNCHANGED <<inner, inner2, hung>>

\* _create_task, line 117, of the second manager: the insert into its map,
\* and the return.
InsertTask2(t) ==
    /\ th[t].pc = "insert_task2"
    /\ inner2' = MapInsert(inner2, th[t].id, Task_new("random_task", None, th[t].id))
    /\ th' = [th EXCEPT ![t] = Returned([op |-> "new_task"], th[t].id)]
    /\ UNCHANGED <<NEXT_TASK_ID, inner, hung>>

NextIds ==
    \E t \in Threads :
        \/ \E mgr \in {1, 2} : NewIdOf(t, mgr)
        \/ InsertTask(t)
        \/ InsertTask2(t)

SpecIds == Init /\ [][NextIds]_vars

\* ------------- SpecPairs: one add_dependency per thread, on disjoint pairs

\* The threads that have called add_dependency, and the tasks of their calls.
Callers == {t \in Threads : "call" \in DOMAIN th[t]}

CallTasks(t) == {th[t].call.parent, th[t].call.child}

\* The tasks are created before the threads start.
Setup ==
    /\ Callers = {}
    /\ NewTask

\* Thread t calls add_dependency(parent, child) on two stored tasks that no
\* other thread's call names: line 134, the lookup of the parent.
StartAdd(t, parent, child) ==
    /\ t \notin Callers
    /\ parent # child
    /\ {parent, child} \subseteq DOMAIN inner
    /\ \A u \in Callers : CallTasks(u) \cap {parent, child} = {}
    /\ GetParent(t, parent, child)

NextPairs ==
    \/ Setup
    \/ \E t \in Threads :
          \/ \E parent \in Ids, child \in Ids : StartAdd(t, parent, child)
          \/ GetDependency(t)
          \/ Contains(t)
          \/ Visit(t)
          \/ InsertDep(t)

SpecPairs == Init /\ [][NextPairs]_vars

\* ------------------------------------------- reference notions of the claims

\* The tasks reachable from the set S through zero or more edges of m: a
\* search with a visited set.
RECURSIVE Closure(_, _)
Closure(m, S) ==
    LET T == S \cup UNION {m[x].deps : x \in S \cap DOMAIN m}
    IN  IF T = S THEN S ELSE Closure(m, T)

\* The tasks a reaches through one or more edges.
Reach(m, a) == Closure(m, m[a].deps)

\* The tasks a reaches through two or more edges.
Reach2(m, a) == UNION {Reach(m, b) : b \in m[a].deps \cap DOMAIN m}

\* No task reaches itself through one or more edges.
Acyclic(m) == \A a \in DOMAIN m : a \notin Reach(m, a)

\* Direct / Transitive / None by the definitions of the glossary.
Classify(m, t, x) ==
    IF x \in m[t].deps THEN "Direct"
    ELSE IF x \in Reach2(m, t) THEN "Transitive"
    ELSE "None"

\* ------------------------------------------------------------------ claims

\* C1 (as stated): in every state reachable by create and add_dependency calls
\* run one at a time, no task reaches itself through one or more edges.
C1_NoCycle == Acyclic(inner)

\* C2 (as stated): with the steps of concurrent add_dependency calls
\* interleaved, no state holds a cycle among distinct tasks: no two distinct
\* tasks reach each other (so a -> b and b -> a are never both present).
C2_NoCycleAmongDistinct ==
    \A a \in DOMAIN inner, b \in DOMAIN inner :
        a # b => ~(b \in Reach(inner, a) /\ a \in Reach(inner, b))

\* C3: on an acyclic graph, for distinct stored tasks p and d,
\* add_dependency(p, d) returns CycleDetected{from: p, to: d} exactly when d
\* reaches p through one or more edges, and otherwise returns Ok and records
\* the edge p -> d.
C3_CycleDetectedIffReaches ==
    Acyclic(inner) =>
        \A p \in DOMAIN inner, d \in DOMAIN inner :
            p # d =>
                LET r == TaskManager_add_dependency(inner, p, d)
                IN  /\ (r.ret = CycleDetected(p, d)) <=> (p \in Reach(inner, d))
                    /\ (p \notin Reach(inner, d)) =>
                           (r.ret = Ok /\ d \in r.map[p].deps)

\* C3 witness: an acyclic graph in which some d reaches a distinct p along two
\* different paths and not by one edge, and add_dependency(p, d) is refused.
C3_Witness ==
    /\ Acyclic(inner)
    /\ \E p \in DOMAIN inner, d \in DOMAIN inner :
          /\ p # d
          /\ p \notin inner[d].deps
          /\ Cardinality({b \in inner[d].deps : p \in Reach(inner, b) \cup {b}}) >= 2
          /\ TaskManager_add_dependency(inner, p, d).ret = CycleDetected(p, d)

\* C4: when add_dependency(p, d) returns CycleDetected, the map afterwards is the
\* map before: every task's dependency set is unchanged.
C4_CycleDetectedLeavesStore ==
    \A p \in Ids, d \in Ids :
        LET r == TaskManager_add_dependency(inner, p, d)
        IN  r.ret.kind = "CycleDetected" => r.map = inner

\* C4 witness: on an acyclic graph, a refused add_dependency(p, d) on a task p
\* that has dependencies, d distinct from p.
C4_Witness ==
    /\ Acyclic(inner)
    /\ \E p \in DOMAIN inner, d \in DOMAIN inner :
          /\ p # d
          /\ inner[p].deps # {}
          /\ TaskManager_add_dependency(inner, p, d).ret = CycleDetected(p, d)

\* C5 (as stated): add_dependency(p, d) returns TaskNotFound(d) when d is not
\* stored and TaskNotFound(p) when p is not stored, and changes nothing.
C5_NotFoundAsStated ==
    \A p \in Ids, d \in Ids :
        LET r == TaskManager_add_dependency(inner, p, d)
        IN  /\ d \notin DOMAIN inner => (r.ret = TaskNotFound(d) /\ r.map = inner)
            /\ p \notin DOMAIN inner => (r.ret = TaskNotFound(p) /\ r.map = inner)

\* C5 (amended): add_dependency(p, d) returns TaskNotFound(p) when p is not
\* stored, and TaskNotFound(d) when p is stored and d is not; in both cases the
\* map is unchanged (no dependency set changes, no task is created).
C5_NotFoundParentFirst ==
    \A p \in Ids, d \in Ids :
        LET r == TaskManager_add_dependency(inner, p, d)
        IN  /\ p \notin DOMAIN inner => (r.ret = TaskNotFound(p) /\ r.map = inner)
            /\ (p \in DOMAIN inner /\ d \notin DOMAIN inner) =>
                   (r.ret = TaskNotFound(d) /\ r.map = inner)

\* C5 witness: an acyclic store with a task that has dependencies, a stored p
\* with a missing d, and a missing p with a stored d.
C5_Witness ==
    /\ Acyclic(inner)
    /\ \E t \in DOMAIN inner : inner[t].deps # {}
    /\ \E p \in DOMAIN inner, d \in Ids \ DOMAIN inner :
          /\ TaskManager_add_dependency(inner, p, d).ret = TaskNotFound(d)
          /\ TaskManager_add_dependency(inner, d, p).ret = TaskNotFound(d)

\* C6 (as stated): for stored tasks p and d, when add_dependency(p, d) returns
\* Ok, repeating it returns Ok again and leaves the map as the first call left
\* it, with d in p's dependency set.
C6_RepeatSucceeds ==
    \A p \in DOMAIN inner, d \in DOMAIN inner :
        LET r1 == TaskManager_add_dependency(inner, p, d)
        IN  r1.ret = Ok =>
                LET r2 == TaskManager_add_dependency(r1.map, p, d)
                IN  /\ d \in r1.map[p].deps
                    /\ r2.ret = Ok
                    /\ r2.map = r1.map

\* C7: on every acyclic graph, depends_on(t, x) is Direct when x is in t's
\* dependency set, Transitive when it is not but t reaches x through two or
\* more edges, and None when t does not reach x: the row-by-row traversal
\* agrees with the search that keeps a visited set.
C7_DependsOnClassifies ==
    Acyclic(inner) =>
        \A t \in DOMAIN inner, x \in Ids :
            depends_on(inner, t, x) = Classify(inner, t, x)

\* C7 witness: a diamond t -> b1 -> x, t -> b2 -> x without the edge t -> x, on
\* which depends_on(t, x) is Transitive.
C7_Witness ==
    /\ Acyclic(inner)
    /\ \E t \in DOMAIN inner, x \in DOMAIN inner :
          /\ x \notin inner[t].deps
          /\ Cardinality({b \in inner[t].deps : x \in inner[b].deps}) >= 2
          /\ depends_on(inner, t, x) = "Transitive"

\* C8: when add_dependency(p, d) returns Ok, depends_on(p, d) is Direct in the
\* map it leaves, and for every edge p -> d a successful add_dependency has
\* recorded, depends_on(p, d) is Direct after every later call.
C8_DirectAfterAddForever ==
    /\ [](\A p \in DOMAIN inner, d \in Ids :
             LET r == TaskManager_add_dependency(inner, p, d)
             IN  r.ret = Ok => depends_on(r.map, p, d) = "Direct")
    /\ [][\A p \in DOMAIN inner : \A d \in inner[p].deps :
             depends_on(inner', p, d) = "Direct"]_vars

\* C8 witness: an acyclic graph of at least three edges in which an edge
\* p -> d is reported Direct although p also reaches d through another task.
C8_Witness ==
    /\ Acyclic(inner)
    /\ Cardinality(Edges(inner)) >= 3
    /\ \E p \in DOMAIN inner, d \in DOMAIN inner :
          /\ d \in inner[p].deps
          /\ d \in Reach2(inner, p)
          /\ depends_on(inner, p, d) = "Direct"

\* C9 (as stated): for distinct stored tasks x and y, if depends_on(x, y) is
\* Direct or Transitive then depends_on(y, x) returns None.
C9_Unidirectional ==
    \A x \in DOMAIN inner, y \in DOMAIN inner :
        (x # y /\ depends_on(inner, x, y) \in {"Direct", "Transitive"})
            => depends_on(inner, y, x) = "None"

\* C10 (as stated): no task's dependency set contains the task's own id, and
\* depends_on(t, t) returns None for every stored task t.
C10_NoSelfDependency ==
    \A t \in DOMAIN inner :
        /\ t \notin inner[t].deps
        /\ depends_on(inner, t, t) = "None"

\* C13: create returns an id under which the new task is retrievable, with the
\* given name and description, no dependencies and completed = false, and
\* every task stored before is stored unchanged afterwards.
C13_CreateAddsFreshTask ==
    \A name \in Names, description \in OptDescriptions :
        LET r == create_task(inner, NEXT_TASK_ID, name, description)
            got == TaskManager_get(r.map, r.id)
        IN  /\ got # None
            /\ got[1].id = r.id
            /\ got[1].name = name
            /\ got[1].description = description
            /\ got[1].completed = FALSE
            /\ got[1].deps = {}
            /\ DOMAIN r.map = DOMAIN inner \cup {r.id}
            /\ \A t \in DOMAIN inner : r.map[t] = inner[t]

\* C13 witness: a store whose newest task is as create left it, beside an older
\* task that is completed, has a description and has a dependency.
C13_Witness ==
    /\ NEXT_TASK_ID >= 2
    /\ LET new == NEXT_TASK_ID - 1
       IN  /\ new \in DOMAIN inner
           /\ inner[new].deps = {} /\ ~inner[new].completed
           /\ inner[new].description # None
           /\ \E t \in DOMAIN inner \ {new} :
                 /\ inner[t].completed
                 /\ inner[t].description # None
                 /\ inner[t].deps # {}
                 /\ inner[t].name # inner[new].name

\* C14: a task is created with completed = false; complete sets completed to
\* true; complete applied to a completed task leaves it as it is; no step takes
\* completed from true to false.
C14_CompleteIdempotentMonotonic ==
    /\ [](\A t \in DOMAIN inner :
             /\ Task_complete(inner[t]).completed
             /\ inner[t].completed => Task_complete(inner[t]) = inner[t]
             /\ Task_complete(Task_complete(inner[t])) = Task_complete(inner[t]))
    /\ [][/\ \A t \in DOMAIN inner' \ DOMAIN inner : ~inner'[t].completed
          /\ \A t \in DOMAIN inner :
                inner[t].completed => (t \in DOMAIN inner' /\ inner'[t].completed)]_vars

\* C14 witness: a completed task that has since been renamed, described and
\* given a dependency, beside a task that is not completed.
C14_Witness ==
    \E t \in DOMAIN inner, u \in DOMAIN inner :
        /\ inner[t].completed
        /\ inner[t].deps # {}
        /\ inner[t].description # None
        /\ ~inner[u].completed

\* C20: when add_dependency(p, d) returns Ok, p's dependency set is the old set
\* plus d, every other dependency set, every name, description and completed
\* flag and the set of stored tasks are as before; and no step of any
\* operation removes an element from a dependency set.
C20_AddDependencyFrame ==
    /\ [](\A p \in Ids, d \in Ids :
             LET r == TaskManager_add_dependency(inner, p, d)
             IN  r.ret = Ok =>
                     /\ DOMAIN r.map = DOMAIN inner
                     /\ r.map[p].deps = inner[p].deps \cup {d}
                     /\ \A t \in DOMAIN inner :
                           /\ t # p => r.map[t].deps = inner[t].deps
                           /\ r.map[t].id = inner[t].id
                           /\ r.map[t].name = inner[t].name
                           /\ r.map[t].description = inner[t].description
                           /\ r.map[t].completed = inner[t].completed)
    /\ [][\A t \in DOMAIN inner :
             t \in DOMAIN inner' /\ inner[t].deps \subseteq inner'[t].deps]_vars

\* C20 witness: a task with a dependency, a description and completed = true
\* for which a further add_dependency returns Ok.
C20_Witness ==
    \E p \in DOMAIN inner, d \in DOMAIN inner :
        /\ p # d
        /\ inner[p].completed /\ inner[d].completed
        /\ inner[p].description # None /\ inner[d].description # None
        /\ d \notin inner[p].deps
        /\ TaskManager_add_dependency(inner, p, d).ret = Ok

\* C15: every depends_on query and every add_dependency call on a pair of
\* stored tasks returns, in every reachable state: no call is left running
\* (hung) and no call that could be made next would run for ever.
C15_EveryCallTerminates ==
    /\ ~hung
    /\ \A t \in DOMAIN inner, x \in DOMAIN inner :
          /\ depends_on(inner, t, x) # "Diverged"
          /\ TaskManager_add_dependency(inner, t, x).ret # Diverged

\* C16: every id in a dependency set is the id of a stored task, and no
\* depends_on query or add_dependency call on a stored task, whatever the
\* target, aborts in the unwrap of the traversal.
C16_NoDanglingEdges ==
    /\ \A t \in DOMAIN inner : inner[t].deps \subseteq DOMAIN inner
    /\ \A t \in DOMAIN inner, x \in Ids :
          /\ depends_on(inner, t, x) # "Panicked"
          /\ TaskManager_add_dependency(inner, t, x).ret # Panicked

\* C16 witness: a traversal that looks up ids taken from dependency sets over
\* two rounds at least: t reaches x through another task, and a query from t
\* for an id that is not stored walks all of t's dependencies.
C16_Witness ==
    /\ Acyclic(inner)
    /\ \E t \in DOMAIN inner, x \in DOMAIN inner, y \in Ids \ DOMAIN inner :
          /\ depends_on(inner, t, x) = "Transitive"
          /\ inner[x].deps # {}
          /\ depends_on(inner, t, y) = "None"

\* C19 as stated: a depends_on query of a stored task for an id that is not
\* stored never answers none.
C19_NotFoundAsStated ==
    \A t \in DOMAIN inner, x \in Ids \ DOMAIN inner :
        depends_on(inner, t, x) # "None"

\* C19 amended: depends_on has no error result. An id that is not stored gets
\* no task from the manager's lookup, so no query can be made on it; a query
\* of a stored task for a target that is not stored never aborts and never
\* answers Direct or Transitive, and it answers none whenever it returns
\* (which it does on every graph without a cycle).
C19_MissingTargetIsNone ==
    \A x \in Ids \ DOMAIN inner :
        /\ TaskManager_get(inner, x) = None
        /\ \A t \in DOMAIN inner :
              /\ depends_on(inner, t, x) \in {"None", "Diverged"}
              /\ Acyclic(inner) => depends_on(inner, t, x) = "None"

\* C19 witness: a stored task with direct and indirect dependencies, on a
\* graph without a cycle, whose query for an id that is not stored is none.
C19_Witness ==
    /\ Acyclic(inner)
    /\ \E t \in DOMAIN inner, x \in Ids \ DOMAIN inner :
          /\ Reach(inner, t) # inner[t].deps
          /\ depends_on(inner, t, x) = "None"

\* The task whose dependency set the next step of a thread with locals r reads
\* (line 225, line 248) or inserts into (line 267).
DepsTouched(r) ==
    IF r.pc = "contains" THEN r.call.child
    ELSE IF r.pc = "visit" THEN CurrRow(r)[r.i]
    ELSE r.call.parent

\* C17: while a thread's add_dependency on parent p has started its cycle
\* check and has not yet made its insert, no step of another thread's
\* add_dependency reads or inserts into p's dependency set.
C17_CheckThenInsertAtomic ==
    [][\A t \in Threads, u \in Threads :
          (/\ t # u
           /\ th[t].pc \in {"visit", "insert"}
           /\ th[u].pc \in {"contains", "visit", "insert"}
           /\ th'[u] # th[u])
              => DepsTouched(th[u]) # th[t].call.parent]_vars

\* The key of the map lookup (lines 134, 261, 247) that the next step of a
\* thread with locals r makes.
KeyAcquired(r) ==
    IF r.pc = "get_dependency" THEN r.call.child ELSE CurrRow(r)[r.i]

\* C18: a thread inside add_dependency that is about to look a key up in the
\* map holds no handle on that key.
C18_NoHandleReacquired ==
    \A t \in Threads :
        th[t].pc \in {"get_dependency", "visit"} =>
            \A k \in 1..Len(th[t].held) : th[t].held[k] # KeyAcquired(th[t])

\* The threads that have drawn an id and not yet returned it.
Creating == {t \in Threads : th[t].pc \in {"insert_task", "insert_task2"}}

\* C11: the ids create has handed out are pairwise distinct, whichever thread
\* and whichever manager made the call: no two creates in progress hold the
\* same id, none holds the id of a stored task, the two managers store no id
\* in common, and each of the NEXT_TASK_ID creates begun so far accounts for
\* an id of its own.
C11_IdsPairwiseDistinct ==
    /\ \A t \in Creating, u \in Creating : t # u => th[t].id # th[u].id
    /\ \A t \in Creating : th[t].id \notin DOMAIN inner \cup DOMAIN inner2
    /\ DOMAIN inner \cap DOMAIN inner2 = {}
    /\ \A t \in Threads :
          (th[t].pc = "idle" /\ "ret" \in DOMAIN th[t]) =>
              th[t].ret \in DOMAIN inner \cup DOMAIN inner2
    /\ Cardinality(DOMAIN inner) + Cardinality(DOMAIN inner2)
          + Cardinality(Creating) = NEXT_TASK_ID

\* C11 witness: both managers have stored tasks, and two threads are inside
\* create at once, one through each manager.
C11_Witness ==
    /\ DOMAIN inner # {} /\ DOMAIN inner2 # {}
    /\ \E t \in Threads, u \in Threads :
          th[t].pc = "insert_task" /\ th[u].pc = "insert_task2"

\* The edges the calls made so far ask for.
Requested == {<<th[t].call.parent, th[t].call.child>> : t \in Callers}

\* C12: with one add_dependency per thread on pairwise disjoint pairs of
\* tasks, under every interleaving no call aborts or is left running, every
\* call that has returned returned Ok and its edge is recorded, and no edge
\* is recorded that was not asked for; so when all calls have returned the
\* edge set is exactly the requested one.
C12_DisjointPairsAllSucceed ==
    /\ \A t \in Callers :
          /\ th[t].pc \notin {"panicked", "spinning"}
          /\ th[t].pc = "idle" =>
                /\ th[t].ret = Ok
                /\ th[t].call.child \in inner[th[t].call.parent].deps
    /\ Edges(inner) \subseteq Requested
    /\ (\A t \in Callers : th[t].pc = "idle") => Edges(inner) = Requested

\* C12 witness: every thread has made its call and has returned, and there
\* are as many edges as threads.
C12_Witness ==
    /\ Callers = Threads
    /\ \A t \in Threads : th[t].pc = "idle"
    /\ Cardinality(Edges(inner)) = NumThreads

====
